---- MODULE Spec2Model ----
(***************************************************************************)
(* Model of comfyui_controlnet_aux/__init__.py:                            *)
(*   - load_nodes: discovery of the node_wrappers modules                  *)
(*   - preprocessor_options / PREPROCESSOR_OPTIONS / getStylesList         *)
(*   - ExecuteAllControlNetPreprocessors.execute (fan-out, pairwise merge) *)
(*   - AIO_Preprocessor.execute and                                        *)
(*     ControlNetPreprocessorSelector.get_preprocessor (argument building) *)
(* Each part has its own specification over the shared variables; the      *)
(* variables of the other parts stay at their idle values.                 *)
(* Python values of mixed type (images, numbers, defaults) are written as  *)
(* strings: "512" is the integer 512, "0.0" the float 0.0.                 *)
(***************************************************************************)
EXTENDS Integers, Sequences, FiniteSets, TLC

VARIABLES
    \* ---- load_nodes ----
    lpc,                        \* position inside load_nodes
    nfiles,                     \* directory entries iterated so far
    cur,                        \* the entry being processed
    exc,                        \* exception in flight inside the try block
    node_class_mappings,        \* name -> class (identified by its module)
    node_display_name_mappings, \* name -> label (identified by its module)
    shorted_errors,             \* one entry per module reported
    full_error_messages,        \* one entry per module reported
    attempted,                  \* history: the non-hidden entries, in order
    outcome                     \* history: outcome of each attempted entry

loadVars == <<lpc, nfiles, cur, exc, node_class_mappings,
              node_display_name_mappings, shorted_errors,
              full_error_messages, attempted, outcome>>

VARIABLES
    \* ---- module globals ----
    AUX_NODE_MAPPINGS,          \* keys of the registry, in insertion order
    PREPROCESSOR_OPTIONS,       \* module global set at import
    gpc,                        \* "import" before PREPROCESSOR_OPTIONS is set, then "ready"
    returned,                   \* history: lists returned by later calls of preprocessor_options
    response                    \* history: bodies served by getStylesList

globalVars == <<AUX_NODE_MAPPINGS, PREPROCESSOR_OPTIONS, gpc, returned, response>>

VARIABLES
    \* ---- arguments of the node being executed ----
    image,                      \* the image argument
    resolution                  \* the resolution argument (the signature's 512 when omitted)

callVars == <<image, resolution>>

VARIABLES
    \* ---- ExecuteAllControlNetPreprocessors.execute ----
    cpc,                        \* position inside execute
    hasGraphBuilder,            \* the host provides comfy_execution.graph_utils
    graph,                      \* nodes created through GraphBuilder, in creation order
    curr_outputs,               \* output references still to be merged
    k,                          \* index of the next entry of PREPROCESSOR_OPTIONS
    result,                     \* execute's "result" tuple, <<>> before it returns
    labeled,                    \* history: curr_outputs when the fan-out ended
    rounds                      \* history: curr_outputs before the first and after each round

composeVars == <<cpc, hasGraphBuilder, graph, curr_outputs, k, result, labeled, rounds>>

VARIABLES
    \* ---- AIO_Preprocessor.execute / ControlNetPreprocessorSelector.get_preprocessor ----
    adapter,                    \* which of the two node classes is executing
    preprocessor,               \* the selected name: "none" or the unit's name
    supplied,                   \* whether the caller passed resolution
    aux_class,                  \* the unit AUX_NODE_MAPPINGS holds under that name
    apc,                        \* position inside the method
    idx,                        \* index of the next item of input_types
    params,                     \* the argument set being built
    error,                      \* exception raised to the caller, "" if none
    entry_args,                 \* <<params>> the unit's entry point ran with, <<>> if it did not run
    predict,                    \* what the entry point returned
    retval                      \* what the method returned

adapterVars == <<adapter, preprocessor, supplied, aux_class, apc, idx, params, error,
                 entry_args, predict, retval>>

vars == <<loadVars, globalVars, callVars, composeVars, adapterVars>>

----------------------------------------------------------------------------
(* load_nodes                                                              *)

MaxCandidates == 3

\* Names a node_wrappers module may export its unit under.
ExportNames == {"CannyEdgePreprocessor", "LineArtPreprocessor", "TilePreprocessor"}

\* What a directory entry of node_wrappers does when it is loaded.
\*   hidden             file name starts with '.'
\*   ok                 imports, has both tables
\*   no_display         imports, has NODE_CLASS_MAPPINGS only
\*   import_error       import_module raises an Exception (ImportError, ...)
\*   import_attr_error  import_module raises AttributeError
\*   no_class_mappings  getattr(module, "NODE_CLASS_MAPPINGS") raises AttributeError
\*   bad_class_mappings NODE_CLASS_MAPPINGS is no mapping: dict.update raises TypeError
\*   bad_display        NODE_DISPLAY_NAME_MAPPINGS is no mapping: dict.update raises TypeError
ModuleKinds == {"hidden", "ok", "no_display", "import_error", "import_attr_error",
                "no_class_mappings", "bad_class_mappings", "bad_display"}

NoModule == [name |-> "", kind |-> "", id |-> 0]

EmptyMapping == [n \in {} |-> 0]

\* dict.update with the one entry {name: value}: insert or overwrite
DictUpdate(d, name, value) ==
    [n \in (DOMAIN d) \cup {name} |-> IF n = name THEN value ELSE d[n]]

LoadIdle ==
    /\ lpc = "iter"
    /\ nfiles = 0
    /\ cur = NoModule
    /\ exc = ""
    /\ node_class_mappings = EmptyMapping
    /\ node_display_name_mappings = EmptyMapping
    /\ shorted_errors = <<>>
    /\ full_error_messages = <<>>
    /\ attempted = <<>>
    /\ outcome = <<>>

\* for filename in (here / "node_wrappers").iterdir(): a hidden file is skipped
LoadSkipHidden ==
    /\ lpc = "iter"
    /\ nfiles < MaxCandidates
    /\ nfiles' = nfiles + 1
    /\ UNCHANGED <<lpc, cur, exc, node_class_mappings, node_display_name_mappings,
                   shorted_errors, full_error_messages, attempted, outcome>>
    /\ UNCHANGED <<globalVars, callVars, composeVars, adapterVars>>

\* the next entry is a module: enter the try block
LoadNextModule ==
    /\ lpc = "iter"
    /\ nfiles < MaxCandidates
    /\ \E name \in ExportNames, kind \in ModuleKinds \ {"hidden"} :
          cur' = [name |-> name, kind |-> kind, id |-> Len(attempted) + 1]
    /\ nfiles' = nfiles + 1
    /\ attempted' = Append(attempted, cur')
    /\ outcome' = Append(outcome, "loading")
    /\ lpc' = "import"
    /\ exc' = ""
    /\ UNCHANGED <<node_class_mappings, node_display_name_mappings,
                   shorted_errors, full_error_messages>>
    /\ UNCHANGED <<globalVars, callVars, composeVars, adapterVars>>

\* importlib.import_module(...)
LoadImport ==
    /\ lpc = "import"
    /\ IF cur.kind = "import_error"
         THEN /\ exc' = "Exception" /\ lpc' = "except"
         ELSE IF cur.kind = "import_attr_error"
         THEN /\ exc' = "AttributeError" /\ lpc' = "except"
         ELSE /\ exc' = exc /\ lpc' = "class"
    /\ UNCHANGED <<nfiles, cur, node_class_mappings, node_display_name_mappings,
                   shorted_errors, full_error_messages, attempted, outcome>>
    /\ UNCHANGED <<globalVars, callVars, composeVars, adapterVars>>

\* node_class_mappings.update(getattr(module, "NODE_CLASS_MAPPINGS"))
LoadMergeClassMappings ==
    /\ lpc = "class"
    /\ IF cur.kind = "no_class_mappings"
         THEN /\ exc' = "AttributeError" /\ lpc' = "except"
              /\ UNCHANGED node_class_mappings
         ELSE IF cur.kind = "bad_class_mappings"
         THEN /\ exc' = "Exception" /\ lpc' = "except"
              /\ UNCHANGED node_class_mappings
         ELSE /\ node_class_mappings' = DictUpdate(node_class_mappings, cur.name, cur.id)
              /\ exc' = exc /\ lpc' = "display"
    /\ UNCHANGED <<nfiles, cur, node_display_name_mappings,
                   shorted_errors, full_error_messages, attempted, outcome>>
    /\ UNCHANGED <<globalVars, callVars, composeVars, adapterVars>>

\* if hasattr(module, "NODE_DISPLAY_NAME_MAPPINGS"): node_display_name_mappings.update(...)
\* then log.debug and the end of the try block
LoadMergeDisplayNames ==
    /\ lpc = "display"
    /\ IF cur.kind = "no_display"
         THEN /\ lpc' = "iter" /\ exc' = exc
              /\ outcome' = [outcome EXCEPT ![cur.id] = "loaded"]
              /\ UNCHANGED node_display_name_mappings
         ELSE IF cur.kind = "bad_display"
         THEN /\ exc' = "Exception" /\ lpc' = "except"
              /\ UNCHANGED <<node_display_name_mappings, outcome>>
         ELSE /\ node_display_name_mappings' =
                    DictUpdate(node_display_name_mappings, cur.name, cur.id)
              /\ lpc' = "iter" /\ exc' = exc
              /\ outcome' = [outcome EXCEPT ![cur.id] = "loaded"]
    /\ UNCHANGED <<nfiles, cur, node_class_mappings,
                   shorted_errors, full_error_messages, attempted>>
    /\ UNCHANGED <<globalVars, callVars, composeVars, adapterVars>>

\* except AttributeError: pass  # wip nodes
LoadExceptAttributeError ==
    /\ lpc = "except"
    /\ exc = "AttributeError"
    /\ outcome' = [outcome EXCEPT ![cur.id] = "AttributeError"]
    /\ exc' = ""
    /\ lpc' = "iter"
    /\ UNCHANGED <<nfiles, cur, node_class_mappings, node_display_name_mappings,
                   shorted_errors, full_error_messages, attempted>>
    /\ UNCHANGED <<globalVars, callVars, composeVars, adapterVars>>

\* except Exception: record the full and the one-line message
LoadExceptException ==
    /\ lpc = "except"
    /\ exc = "Exception"
    /\ full_error_messages' = Append(full_error_messages, cur.id)
    /\ shorted_errors' = Append(shorted_errors, cur.id)
    /\ outcome' = [outcome EXCEPT ![cur.id] = "Exception"]
    /\ exc' = ""
    /\ lpc' = "iter"
    /\ UNCHANGED <<nfiles, cur, node_class_mappings, node_display_name_mappings,
                   attempted>>
    /\ UNCHANGED <<globalVars, callVars, composeVars, adapterVars>>

\* the directory is exhausted: report and return the two mappings
LoadReturn ==
    /\ lpc = "iter"
    /\ lpc' = "done"
    /\ UNCHANGED <<nfiles, cur, exc, node_class_mappings, node_display_name_mappings,
                   shorted_errors, full_error_messages, attempted, outcome>>
    /\ UNCHANGED <<globalVars, callVars, composeVars, adapterVars>>

----------------------------------------------------------------------------
(* Module globals: AUX_NODE_MAPPINGS, AIO_NOT_SUPPORTED, PREPROCESSOR_OPTIONS *)

MaxUnits == 5
MaxCalls == 2
MaxRequests == 2

\* Names the registry may hold: supported ones, one of AIO_NOT_SUPPORTED, and a
\* unit that happens to be registered under the sentinel's name.
UnitNames == {"CannyEdgePreprocessor", "LineArtPreprocessor", "TilePreprocessor",
              "DepthAnythingPreprocessor", "OpenposePreprocessor",
              "MaskOptFlow", "none"}

AIO_NOT_SUPPORTED ==
    <<"InpaintPreprocessor", "MeshGraphormer+ImpactDetector-DepthMapPreprocessor",
      "DiffusionEdge_Preprocessor",
      "SavePoseKpsAsJsonFile", "FacialPartColoringFromPoseKps",
      "UpperBodyTrackingFromPoseKps", "RenderPeopleKps", "RenderAnimalKps",
      "Unimatch_OptFlowPreprocessor", "MaskOptFlow">>

Range(s) == {s[i] : i \in DOMAIN s}

\* The key lists a dict can have: no key twice, insertion order kept.
Registries ==
    UNION {{s \in [1..n -> UnitNames] : \A i, j \in 1..n : i # j => s[i] # s[j]}
           : n \in 0..MaxUnits}

\* list.remove(x): drops the first occurrence of x
ListRemove(s, x) ==
    LET first == CHOOSE i \in 1..Len(s) : s[i] = x /\ \A j \in 1..(i-1) : s[j] # x
    IN  [j \in 1..(Len(s) - 1) |-> IF j < first THEN s[j] ELSE s[j + 1]]

\* for name in AIO_NOT_SUPPORTED[i..]: if name in auxs: auxs.remove(name)
RECURSIVE RemoveNotSupported(_, _)
RemoveNotSupported(auxs, i) ==
    IF i > Len(AIO_NOT_SUPPORTED) THEN auxs
    ELSE IF AIO_NOT_SUPPORTED[i] \in Range(auxs)
         THEN RemoveNotSupported(ListRemove(auxs, AIO_NOT_SUPPORTED[i]), i + 1)
         ELSE RemoveNotSupported(auxs, i + 1)

\* A slip: the sentinel appended instead of inserted at index 0.
preprocessor_options_appended ==
    RemoveNotSupported(Append(AUX_NODE_MAPPINGS, "none"), 1)

\* A slip: the sentinel left out.
preprocessor_options_without_none ==
    RemoveNotSupported(AUX_NODE_MAPPINGS, 1)

\* auxs = list(AUX_NODE_MAPPINGS.keys()); auxs.insert(0, "none"); the removal loop
preprocessor_options ==
    RemoveNotSupported(<<"none">> \o AUX_NODE_MAPPINGS, 1)

GlobalsIdle ==
    /\ AUX_NODE_MAPPINGS = <<>>
    /\ PREPROCESSOR_OPTIONS = <<>>
    /\ gpc = "import"
    /\ returned = <<>>
    /\ response = <<>>

\* AUX_NODE_MAPPINGS, AUX_DISPLAY_NAME_MAPPINGS = load_nodes(): any registry
InitGlobals ==
    /\ AUX_NODE_MAPPINGS \in Registries
    /\ PREPROCESSOR_OPTIONS = <<>>
    /\ gpc = "import"
    /\ returned = <<>>
    /\ response = <<>>

\* PREPROCESSOR_OPTIONS = preprocessor_options()
ModuleSetOptions ==
    /\ gpc = "import"
    /\ PREPROCESSOR_OPTIONS' = preprocessor_options
    /\ gpc' = "ready"
    /\ UNCHANGED <<AUX_NODE_MAPPINGS, returned, response>>
    /\ UNCHANGED <<loadVars, callVars, composeVars, adapterVars>>

\* a further call of preprocessor_options()
CallPreprocessorOptions ==
    /\ gpc = "ready"
    /\ Len(returned) < MaxCalls
    /\ returned' = Append(returned, preprocessor_options)
    /\ UNCHANGED <<AUX_NODE_MAPPINGS, PREPROCESSOR_OPTIONS, gpc, response>>
    /\ UNCHANGED <<loadVars, callVars, composeVars, adapterVars>>

\* GET /Preprocessor: web.json_response(PREPROCESSOR_OPTIONS)
getStylesList ==
    /\ gpc = "ready"
    /\ Len(response) < MaxRequests
    /\ response' = Append(response, PREPROCESSOR_OPTIONS)
    /\ UNCHANGED <<AUX_NODE_MAPPINGS, PREPROCESSOR_OPTIONS, gpc, returned>>
    /\ UNCHANGED <<loadVars, callVars, composeVars, adapterVars>>

----------------------------------------------------------------------------
(* ExecuteAllControlNetPreprocessors.execute                               *)

\* A reference is 0 for execute's image argument and n > 0 for output 0 of
\* the n-th node of the graph; NoRef marks an input a node does not have.
NoRef == -1

\* graph.node("AIO_Preprocessor", preprocessor=preprocc, image=image, resolution=resolution)
AIONode(preprocc, img, res) ==
    [class_type |-> "AIO_Preprocessor", preprocessor |-> preprocc, image |-> img,
     image2 |-> NoRef, text |-> "", resolution |-> res]

\* graph.node("ControlNetAuxSimpleAddText", image=hint_img, text=preprocc)
AddTextNode(hint_img, preprocc) ==
    [class_type |-> "ControlNetAuxSimpleAddText", preprocessor |-> "", image |-> hint_img,
     image2 |-> NoRef, text |-> preprocc, resolution |-> ""]

\* graph.node("ImageBatch", image1=curr_outputs[i], image2=curr_outputs[i+1])
ImageBatchNode(image1, image2) ==
    [class_type |-> "ImageBatch", preprocessor |-> "", image |-> image1,
     image2 |-> image2, text |-> "", resolution |-> ""]

\* A slip: the unpaired last item of an odd-length list is dropped.
RECURSIVE MergePairsDroppingLast(_, _, _, _)
MergePairsDroppingLast(i, outs, g, acc) ==
    IF i > Len(outs) THEN [graph |-> g, outputs |-> acc]
    ELSE IF i + 1 <= Len(outs)
         THEN MergePairsDroppingLast(i + 2, outs,
                  Append(g, ImageBatchNode(outs[i], outs[i + 1])), Append(acc, Len(g) + 1))
         ELSE MergePairsDroppingLast(i + 2, outs, g, acc)

\* A slip: the two inputs of a merge swapped.
RECURSIVE MergePairsSwapped(_, _, _, _)
MergePairsSwapped(i, outs, g, acc) ==
    IF i > Len(outs) THEN [graph |-> g, outputs |-> acc]
    ELSE IF i + 1 <= Len(outs)
         THEN MergePairsSwapped(i + 2, outs,
                  Append(g, ImageBatchNode(outs[i + 1], outs[i])), Append(acc, Len(g) + 1))
         ELSE MergePairsSwapped(i + 2, outs, g, Append(acc, outs[i]))

\* for i in range(0, len(curr_outputs), 2): one round, from position i (1-based) on
RECURSIVE MergePairs(_, _, _, _)
MergePairs(i, outs, g, acc) ==
    IF i > Len(outs) THEN [graph |-> g, outputs |-> acc]
    ELSE IF i + 1 <= Len(outs)
         THEN MergePairs(i + 2, outs,
                  Append(g, ImageBatchNode(outs[i], outs[i + 1])), Append(acc, Len(g) + 1))
         ELSE MergePairs(i + 2, outs, g, Append(acc, outs[i]))

\* What the host's executor computes for a reference: a batch (sequence) of
\* images, an image being the input followed by what was done to it.
\*   AIO_Preprocessor.execute returns (image,) for "none", the unit's hint otherwise;
\*   ControlNetAuxSimpleAddText.execute draws the text on image[0];
\*   ImageBatch concatenates its two batches.
RECURSIVE ImageOf(_, _)
ImageOf(g, ref) ==
    IF ref = 0 THEN << <<image>> >>
    ELSE LET n == g[ref]
             in1 == ImageOf(g, n.image)
         IN  IF n.class_type = "AIO_Preprocessor"
             THEN IF n.preprocessor = "none" THEN in1
                  ELSE [j \in 1..Len(in1) |-> in1[j] \o <<"hint", n.preprocessor>>]
             ELSE IF n.class_type = "ControlNetAuxSimpleAddText"
             THEN << in1[1] \o <<"text", n.text>> >>
             ELSE in1 \o ImageOf(g, n.image2)

ComposeIdle ==
    /\ cpc = "idle"
    /\ hasGraphBuilder = TRUE
    /\ graph = <<>>
    /\ curr_outputs = <<>>
    /\ k = 1
    /\ result = <<>>
    /\ labeled = <<>>
    /\ rounds = <<>>

CallIdle ==
    /\ image = "I"
    /\ resolution = "512"

\* try: from comfy_execution.graph_utils import GraphBuilder / except: raise RuntimeError
ExecAllRaiseNoGraphBuilder ==
    /\ gpc = "ready"
    /\ cpc = "idle"
    /\ ~hasGraphBuilder
    /\ cpc' = "raised"
    /\ UNCHANGED <<hasGraphBuilder, graph, curr_outputs, k, result, labeled, rounds>>
    /\ UNCHANGED <<loadVars, globalVars, callVars, adapterVars>>

\* graph = GraphBuilder(); curr_outputs = []
ExecAllBegin ==
    /\ gpc = "ready"
    /\ cpc = "idle"
    /\ hasGraphBuilder
    /\ graph' = <<>>
    /\ curr_outputs' = <<>>
    /\ k' = 1
    /\ cpc' = "fanout"
    /\ UNCHANGED <<hasGraphBuilder, result, labeled, rounds>>
    /\ UNCHANGED <<loadVars, globalVars, callVars, adapterVars>>

\* for preprocc in PREPROCESSOR_OPTIONS: one iteration
ExecAllFanOut ==
    /\ cpc = "fanout"
    /\ k <= Len(PREPROCESSOR_OPTIONS)
    /\ LET preprocc == PREPROCESSOR_OPTIONS[k]
           preprocc_node == Len(graph) + 1
           add_text_node == Len(graph) + 2
       IN  /\ graph' = graph \o <<AIONode(preprocc, 0, resolution),
                                  AddTextNode(preprocc_node, preprocc)>>
           /\ curr_outputs' = Append(curr_outputs, add_text_node)
    /\ k' = k + 1
    /\ UNCHANGED <<cpc, hasGraphBuilder, result, labeled, rounds>>
    /\ UNCHANGED <<loadVars, globalVars, callVars, adapterVars>>

\* the for loop is exhausted
ExecAllFanOutEnd ==
    /\ cpc = "fanout"
    /\ k > Len(PREPROCESSOR_OPTIONS)
    /\ labeled' = curr_outputs
    /\ rounds' = <<curr_outputs>>
    /\ cpc' = "reduce"
    /\ UNCHANGED <<hasGraphBuilder, graph, curr_outputs, k, result>>
    /\ UNCHANGED <<loadVars, globalVars, callVars, adapterVars>>

\* while len(curr_outputs) > 1: one round
ExecAllMergeRound ==
    /\ cpc = "reduce"
    /\ Len(curr_outputs) > 1
    /\ LET round == MergePairs(1, curr_outputs, graph, <<>>)
       IN  /\ graph' = round.graph
           /\ curr_outputs' = round.outputs
           /\ rounds' = Append(rounds, round.outputs)
    /\ UNCHANGED <<cpc, hasGraphBuilder, k, result, labeled>>
    /\ UNCHANGED <<loadVars, globalVars, callVars, adapterVars>>

\* return {"result": (curr_outputs[0],), "expand": graph.finalize()}
\* (curr_outputs[0] raises IndexError on an empty list)
ExecAllReturn ==
    /\ cpc = "reduce"
    /\ Len(curr_outputs) <= 1
    /\ IF Len(curr_outputs) = 0
         THEN /\ cpc' = "raised" /\ UNCHANGED result
         ELSE /\ cpc' = "done" /\ result' = <<curr_outputs[1]>>
    /\ UNCHANGED <<hasGraphBuilder, graph, curr_outputs, k, labeled, rounds>>
    /\ UNCHANGED <<loadVars, globalVars, callVars, adapterVars>>

----------------------------------------------------------------------------
(* AIO_Preprocessor.execute and ControlNetPreprocessorSelector.get_preprocessor *)

MaxParams == 3

\* An item of a unit's INPUT_TYPES(): the parameter's name and its input_type
\* tuple.  is_list says input_type[0] is a list of choices (choices) rather
\* than a type tag (tag); len is len(input_type); has_default says
\* input_type[1] holds "default", and default is that value.
Param(name, is_list, tag, choices, len, has_default, default) ==
    [name |-> name, is_list |-> is_list, tag |-> tag, choices |-> choices,
     len |-> len, has_default |-> has_default, default |-> default]

ParamCatalogue ==
    { Param("image", FALSE, "IMAGE", <<>>, 1, FALSE, ""),
      Param("resolution", FALSE, "INT", <<>>, 2, TRUE, "512"),
      Param("resolution", FALSE, "INT", <<>>, 2, TRUE, "1024"),
      Param("p", FALSE, "INT", <<>>, 1, FALSE, ""),
      Param("p", FALSE, "FLOAT", <<>>, 2, FALSE, ""),
      Param("p", FALSE, "STRING", <<>>, 1, FALSE, ""),
      Param("p", FALSE, "STRING", <<>>, 2, TRUE, "text"),
      Param("p", TRUE, "", <<"enable", "disable">>, 1, FALSE, ""),
      Param("p", TRUE, "", <<"enable", "INT">>, 1, FALSE, ""),
      Param("p", TRUE, "", <<"enable", "disable">>, 2, TRUE, "enable"),
      Param("q", FALSE, "INT", <<>>, 2, TRUE, "7"),
      Param("q", FALSE, "MASK", <<>>, 1, FALSE, "") }

\* {**input_types["required"], **input_types.get("optional", {})}: the items in order, no name twice
Schemas ==
    UNION {{s \in [1..n -> ParamCatalogue] :
                \A i, j \in 1..n : i # j => s[i].name # s[j].name}
           : n \in 0..MaxParams}

\* The unit: its merged INPUT_TYPES(), whether its entry point returns a dict
\* ({"ui": ..., "result": ...}) or a plain tuple, and whether the entry point's
\* signature gives every parameter a Python default.
Units == [input_types : Schemas, returns_dict : BOOLEAN, py_defaults : BOOLEAN]

NoUnit == [input_types |-> <<>>, returns_dict |-> FALSE, py_defaults |-> FALSE]

\* Python return values: a plain tuple (its elements in result) or a dict
\* (its "result" tuple in result, the rest of the dict in extra).
Tuple(elems) == [shape |-> "tuple", result |-> elems, extra |-> ""]

Dict(elems, rest) == [shape |-> "dict", result |-> elems, extra |-> rest]

NoValue == [shape |-> "", result |-> <<>>, extra |-> ""]

EmptyParams == [n \in {} |-> ""]

\* params[name] = value
Bind(ps, name, value) ==
    [n \in (DOMAIN ps) \cup {name} |-> IF n = name THEN value ELSE ps[n]]

\* A slip: a fallback for every type tag the table does not hold.
InDefaultValuesOrString(key) == key \in {"INT", "FLOAT", "STRING"}

\* default_values = { "INT": 0, "FLOAT": 0.0 }
InDefaultValues(key) == key \in {"INT", "FLOAT"}

default_values(key) == IF key = "INT" THEN "0" ELSE "0.0"

\* getattr(aux_class(), aux_class.FUNCTION)(**params): Python raises TypeError
\* before the body runs when the signature has a parameter without a default
\* that params lacks
EntryPointRaises(unit, ps) ==
    /\ ~unit.py_defaults
    /\ \E i \in 1..Len(unit.input_types) : unit.input_types[i].name \notin DOMAIN ps

\* what the unit's entry point returns
EntryPointResult(unit) ==
    IF unit.returns_dict THEN Dict(<<"hint">>, "ui") ELSE Tuple(<<"hint">>)

AdapterIdle ==
    /\ adapter = ""
    /\ preprocessor = ""
    /\ supplied = FALSE
    /\ aux_class = NoUnit
    /\ apc = "idle"
    /\ idx = 1
    /\ params = EmptyParams
    /\ error = ""
    /\ entry_args = <<>>
    /\ predict = NoValue
    /\ retval = NoValue

\* The host calls one of the two methods: the selected name, the image, the
\* resolution (512 from the signature when the caller passes none) and the
\* unit registered under the name.
InitAdapter ==
    /\ adapter \in {"AIO", "Selector"}
    /\ preprocessor \in {"none", "unit"}
    /\ supplied \in BOOLEAN
    /\ resolution = IF supplied THEN "256" ELSE "512"
    /\ image = "I"
    /\ aux_class \in Units
    /\ apc = "start"
    /\ idx = 1
    /\ params = EmptyParams
    /\ error = ""
    /\ entry_args = <<>>
    /\ predict = NoValue
    /\ retval = NoValue

CurrentParam == aux_class.input_types[idx]

InLoop(a) ==
    /\ adapter = a
    /\ apc = "loop"
    /\ idx <= Len(aux_class.input_types)

\* ---- AIO_Preprocessor.execute ----

\* if preprocessor == "none": return (image, )
AIO_None ==
    /\ adapter = "AIO" /\ apc = "start"
    /\ preprocessor = "none"
    /\ retval' = Tuple(<<image>>)
    /\ apc' = "returned"
    /\ UNCHANGED <<adapter, preprocessor, supplied, aux_class, idx, params, error,
                   entry_args, predict>>
    /\ UNCHANGED <<loadVars, globalVars, callVars, composeVars>>

\* aux_class = AUX_NODE_MAPPINGS[preprocessor]; input_types = {...}; params = {}
AIO_Begin ==
    /\ adapter = "AIO" /\ apc = "start"
    /\ preprocessor # "none"
    /\ params' = EmptyParams
    /\ idx' = 1
    /\ apc' = "loop"
    /\ UNCHANGED <<adapter, preprocessor, supplied, aux_class, error, entry_args,
                   predict, retval>>
    /\ UNCHANGED <<loadVars, globalVars, callVars, composeVars>>

\* A slip: the schema's declared default bound instead of the caller's value.
AIO_BoundResolutionDeclared ==
    IF CurrentParam.has_default THEN CurrentParam.default ELSE resolution

\* the value bound to "resolution"
AIO_BoundResolution == resolution

\* if name == "image": params[name] = image; continue
AIO_BindImage ==
    /\ InLoop("AIO")
    /\ CurrentParam.name = "image"
    /\ params' = Bind(params, "image", image)
    /\ idx' = idx + 1
    /\ UNCHANGED <<adapter, preprocessor, supplied, aux_class, apc, error, entry_args,
                   predict, retval>>
    /\ UNCHANGED <<loadVars, globalVars, callVars, composeVars>>

\* if name == "resolution": params[name] = resolution; continue
AIO_BindResolution ==
    /\ InLoop("AIO")
    /\ CurrentParam.name = "resolution"
    /\ params' = Bind(params, "resolution", AIO_BoundResolution)
    /\ idx' = idx + 1
    /\ UNCHANGED <<adapter, preprocessor, supplied, aux_class, apc, error, entry_args,
                   predict, retval>>
    /\ UNCHANGED <<loadVars, globalVars, callVars, composeVars>>

\* if len(input_type) == 2 and ("default" in input_type[1]): params[name] = default; continue
AIO_BindDefault ==
    /\ InLoop("AIO")
    /\ CurrentParam.name \notin {"image", "resolution"}
    /\ CurrentParam.len = 2 /\ CurrentParam.has_default
    /\ params' = Bind(params, CurrentParam.name, CurrentParam.default)
    /\ idx' = idx + 1
    /\ UNCHANGED <<adapter, preprocessor, supplied, aux_class, apc, error, entry_args,
                   predict, retval>>
    /\ UNCHANGED <<loadVars, globalVars, callVars, composeVars>>

\* if type(input_type[0]) is list:
\*     for input_type_value in input_type[0]:
\*         if input_type_value in default_values:
\*             params[name] = default_values[input_type[0]]
\* the subscript is the list itself: TypeError (unhashable type: 'list')
AIO_FallbackList ==
    /\ InLoop("AIO")
    /\ CurrentParam.name \notin {"image", "resolution"}
    /\ ~(CurrentParam.len = 2 /\ CurrentParam.has_default)
    /\ CurrentParam.is_list
    /\ IF \E j \in 1..Len(CurrentParam.choices) : InDefaultValues(CurrentParam.choices[j])
         THEN /\ error' = "TypeError: unhashable type: 'list'"
              /\ apc' = "raised"
              /\ UNCHANGED idx
         ELSE /\ idx' = idx + 1
              /\ UNCHANGED <<error, apc>>
    /\ UNCHANGED <<adapter, preprocessor, supplied, aux_class, params, entry_args,
                   predict, retval>>
    /\ UNCHANGED <<loadVars, globalVars, callVars, composeVars>>

\* else: if input_type[0] in default_values: params[name] = default_values[input_type[0]]
AIO_FallbackTag ==
    /\ InLoop("AIO")
    /\ CurrentParam.name \notin {"image", "resolution"}
    /\ ~(CurrentParam.len = 2 /\ CurrentParam.has_default)
    /\ ~CurrentParam.is_list
    /\ params' = IF InDefaultValues(CurrentParam.tag)
                   THEN Bind(params, CurrentParam.name, default_values(CurrentParam.tag))
                   ELSE params
    /\ idx' = idx + 1
    /\ UNCHANGED <<adapter, preprocessor, supplied, aux_class, apc, error, entry_args,
                   predict, retval>>
    /\ UNCHANGED <<loadVars, globalVars, callVars, composeVars>>

\* return getattr(aux_class(), aux_class.FUNCTION)(**params)
AIO_Invoke ==
    /\ adapter = "AIO" /\ apc = "loop"
    /\ idx > Len(aux_class.input_types)
    /\ IF EntryPointRaises(aux_class, params)
         THEN /\ error' = "TypeError: missing required argument"
              /\ apc' = "raised"
              /\ UNCHANGED <<entry_args, predict, retval>>
         ELSE /\ entry_args' = <<params>>
              /\ predict' = EntryPointResult(aux_class)
              /\ retval' = predict'
              /\ apc' = "returned"
              /\ UNCHANGED error
    /\ UNCHANGED <<adapter, preprocessor, supplied, aux_class, idx, params>>
    /\ UNCHANGED <<loadVars, globalVars, callVars, composeVars>>

\* ---- ControlNetPreprocessorSelector.get_preprocessor ----

\* cnmodel = comfy.controlnet.load_controlnet(...)
cnmodel == "cnmodel"

\* if cnprepro == "none": return (cnmodel, image )
Selector_None ==
    /\ adapter = "Selector" /\ apc = "start"
    /\ preprocessor = "none"
    /\ retval' = Tuple(<<cnmodel, image>>)
    /\ apc' = "returned"
    /\ UNCHANGED <<adapter, preprocessor, supplied, aux_class, idx, params, error,
                   entry_args, predict>>
    /\ UNCHANGED <<loadVars, globalVars, callVars, composeVars>>

\* aux_class = AUX_NODE_MAPPINGS[cnprepro]; input_types = {...}; params = {}
Selector_Begin ==
    /\ adapter = "Selector" /\ apc = "start"
    /\ preprocessor # "none"
    /\ params' = EmptyParams
    /\ idx' = 1
    /\ apc' = "loop"
    /\ UNCHANGED <<adapter, preprocessor, supplied, aux_class, error, entry_args,
                   predict, retval>>
    /\ UNCHANGED <<loadVars, globalVars, callVars, composeVars>>

\* if name == "image": params[name] = image; continue
Selector_BindImage ==
    /\ InLoop("Selector")
    /\ CurrentParam.name = "image"
    /\ params' = Bind(params, "image", image)
    /\ idx' = idx + 1
    /\ UNCHANGED <<adapter, preprocessor, supplied, aux_class, apc, error, entry_args,
                   predict, retval>>
    /\ UNCHANGED <<loadVars, globalVars, callVars, composeVars>>

\* if name == "resolution": params[name] = resolution; continue
Selector_BindResolution ==
    /\ InLoop("Selector")
    /\ CurrentParam.name = "resolution"
    /\ params' = Bind(params, "resolution", resolution)
    /\ idx' = idx + 1
    /\ UNCHANGED <<adapter, preprocessor, supplied, aux_class, apc, error, entry_args,
                   predict, retval>>
    /\ UNCHANGED <<loadVars, globalVars, callVars, composeVars>>

\* if len(input_type) == 2 and ("default" in input_type[1]): params[name] = default; continue
Selector_BindDefault ==
    /\ InLoop("Selector")
    /\ CurrentParam.name \notin {"image", "resolution"}
    /\ CurrentParam.len = 2 /\ CurrentParam.has_default
    /\ params' = Bind(params, CurrentParam.name, CurrentParam.default)
    /\ idx' = idx + 1
    /\ UNCHANGED <<adapter, preprocessor, supplied, aux_class, apc, error, entry_args,
                   predict, retval>>
    /\ UNCHANGED <<loadVars, globalVars, callVars, composeVars>>

\* if input_type[0] in default_values: params[name] = default_values[input_type[0]]
\* a list on the left of "in <dict>" is hashed: TypeError (unhashable type: 'list')
Selector_Fallback ==
    /\ InLoop("Selector")
    /\ CurrentParam.name \notin {"image", "resolution"}
    /\ ~(CurrentParam.len = 2 /\ CurrentParam.has_default)
    /\ IF CurrentParam.is_list
         THEN /\ error' = "TypeError: unhashable type: 'list'"
              /\ apc' = "raised"
              /\ UNCHANGED <<idx, params>>
         ELSE /\ params' = IF InDefaultValues(CurrentParam.tag)
                             THEN Bind(params, CurrentParam.name,
                                       default_values(CurrentParam.tag))
                             ELSE params
              /\ idx' = idx + 1
              /\ UNCHANGED <<error, apc>>
    /\ UNCHANGED <<adapter, preprocessor, supplied, aux_class, entry_args,
                   predict, retval>>
    /\ UNCHANGED <<loadVars, globalVars, callVars, composeVars>>

\* predict = getattr(aux_class(), aux_class.FUNCTION)(**params)
Selector_Invoke ==
    /\ adapter = "Selector" /\ apc = "loop"
    /\ idx > Len(aux_class.input_types)
    /\ IF EntryPointRaises(aux_class, params)
         THEN /\ error' = "TypeError: missing required argument"
              /\ apc' = "raised"
              /\ UNCHANGED <<entry_args, predict>>
         ELSE /\ entry_args' = <<params>>
              /\ predict' = EntryPointResult(aux_class)
              /\ apc' = "invoked"
              /\ UNCHANGED error
    /\ UNCHANGED <<adapter, preprocessor, supplied, aux_class, idx, params, retval>>
    /\ UNCHANGED <<loadVars, globalVars, callVars, composeVars>>

\* A slip: a dict handed on as it is, the way AIO_Preprocessor does.
Selector_Unnormalized(p) ==
    IF p.shape = "dict" THEN p ELSE Tuple(<<cnmodel>> \o p.result)

\* if isinstance(predict, dict): (cnmodel,) + predict["result"] else: (cnmodel,) + predict
Selector_Normalized(p) ==
    IF p.shape = "dict" THEN Tuple(<<cnmodel>> \o p.result)
    ELSE Tuple(<<cnmodel>> \o p.result)

\* the two return statements after the call
Selector_Return ==
    /\ adapter = "Selector" /\ apc = "invoked"
    /\ retval' = Selector_Normalized(predict)
    /\ apc' = "returned"
    /\ UNCHANGED <<adapter, preprocessor, supplied, aux_class, idx, params, error,
                   entry_args, predict>>
    /\ UNCHANGED <<loadVars, globalVars, callVars, composeVars>>

----------------------------------------------------------------------------
(* Specifications                                                          *)

\* load_nodes run once, at import
InitLoad ==
    /\ LoadIdle
    /\ GlobalsIdle
    /\ CallIdle
    /\ ComposeIdle
    /\ AdapterIdle

NextLoad ==
    \/ LoadSkipHidden
    \/ LoadNextModule
    \/ LoadImport
    \/ LoadMergeClassMappings
    \/ LoadMergeDisplayNames
    \/ LoadExceptAttributeError
    \/ LoadExceptException
    \/ LoadReturn

SpecLoad == InitLoad /\ [][NextLoad]_vars

\* the module globals after load_nodes returned some registry
InitOptions ==
    /\ LoadIdle
    /\ InitGlobals
    /\ CallIdle
    /\ ComposeIdle
    /\ AdapterIdle

NextOptions ==
    \/ ModuleSetOptions
    \/ CallPreprocessorOptions
    \/ getStylesList

SpecOptions == InitOptions /\ [][NextOptions]_vars

\* one execution of ExecuteAllControlNetPreprocessors over some registry
InitCompose ==
    /\ LoadIdle
    /\ InitGlobals
    /\ image = "I"
    /\ resolution \in {"512", "1024"}
    /\ cpc = "idle"
    /\ hasGraphBuilder \in BOOLEAN
    /\ graph = <<>>
    /\ curr_outputs = <<>>
    /\ k = 1
    /\ result = <<>>
    /\ labeled = <<>>
    /\ rounds = <<>>
    /\ AdapterIdle

NextCompose ==
    \/ ModuleSetOptions
    \/ ExecAllRaiseNoGraphBuilder
    \/ ExecAllBegin
    \/ ExecAllFanOut
    \/ ExecAllFanOutEnd
    \/ ExecAllMergeRound
    \/ ExecAllReturn

SpecCompose == InitCompose /\ [][NextCompose]_vars

\* the host executes its graph to the end: every step that can be taken is taken
FairCompose == SpecCompose /\ WF_vars(NextCompose)

\* one execution of AIO_Preprocessor or of ControlNetPreprocessorSelector
InitAdapterCall ==
    /\ LoadIdle
    /\ GlobalsIdle
    /\ ComposeIdle
    /\ InitAdapter

NextAdapter ==
    \/ AIO_None
    \/ AIO_Begin
    \/ AIO_BindImage
    \/ AIO_BindResolution
    \/ AIO_BindDefault
    \/ AIO_FallbackList
    \/ AIO_FallbackTag
    \/ AIO_Invoke
    \/ Selector_None
    \/ Selector_Begin
    \/ Selector_BindImage
    \/ Selector_BindResolution
    \/ Selector_BindDefault
    \/ Selector_Fallback
    \/ Selector_Invoke
    \/ Selector_Return

SpecAdapter == InitAdapterCall /\ [][NextAdapter]_vars

----------------------------------------------------------------------------
(* Properties of load_nodes                                                *)

FailedWith(kind) == {i \in DOMAIN outcome : outcome[i] = kind}

\* the entry failed: its exception was handled, or is in flight
Failed(i) ==
    \/ outcome[i] \in {"AttributeError", "Exception"}
    \/ (cur.id = i /\ exc # "")

DistinctlyNamed ==
    \A i, j \in DOMAIN attempted : i # j => attempted[i].name # attempted[j].name

\* C1: after discovery over N distinctly named candidates of which K failed
\* with a generic error and M with a missing-attribute error, every candidate
\* was attempted, the registry holds N-K-M units and both diagnostics lists
\* hold K entries.
C1_RegistrySize ==
    (lpc = "done" /\ DistinctlyNamed) =>
        LET N == Len(attempted)
            K == Cardinality(FailedWith("Exception"))
            M == Cardinality(FailedWith("AttributeError"))
        IN  /\ \A i \in DOMAIN outcome : outcome[i] # "loading"
            /\ Cardinality(DOMAIN node_class_mappings) = N - K - M
            /\ Len(shorted_errors) = K
            /\ Len(full_error_messages) = K

\* C2: in every state of discovery, a candidate whose load failed has no
\* class-mapping entry and no display-name entry in the registry.
C2_FailedAbsent ==
    \A i \in DOMAIN attempted :
        Failed(i) =>
            /\ \A n \in DOMAIN node_class_mappings : node_class_mappings[n] # i
            /\ \A n \in DOMAIN node_display_name_mappings :
                  node_display_name_mappings[n] # i

----------------------------------------------------------------------------
(* Properties of preprocessor_options                                      *)

NotExcluded(name) == name \notin Range(AIO_NOT_SUPPORTED)

\* "none", then the registered names outside the exclusion list, in registry order
ExpectedOptions == <<"none">> \o SelectSeq(AUX_NODE_MAPPINGS, NotExcluded)

\* C3: for every registry, PREPROCESSOR_OPTIONS, every later call of
\* preprocessor_options() and every body served by getStylesList is the
\* sentinel "none" followed by exactly the registered names that are not in
\* AIO_NOT_SUPPORTED, in registry order; so repeated calls return the same list.
C3_Options ==
    /\ gpc = "ready" => PREPROCESSOR_OPTIONS = ExpectedOptions
    /\ \A i \in DOMAIN returned : returned[i] = ExpectedOptions
    /\ \A i \in DOMAIN response : response[i] = ExpectedOptions

\* C3 witness: two further calls over a registry that holds an excluded name
\* between supported ones.
C3_Witness ==
    /\ Len(returned) = 2
    /\ Len(response) >= 1
    /\ Len(AUX_NODE_MAPPINGS) >= 3
    /\ AUX_NODE_MAPPINGS[2] = "MaskOptFlow"
    /\ Len(returned[2]) = Len(AUX_NODE_MAPPINGS)

----------------------------------------------------------------------------
(* Properties of ExecuteAllControlNetPreprocessors.execute                 *)

Lengths == [r \in DOMAIN rounds |-> Len(rounds[r])]

\* The labeled outputs a reference is built from, left to right.
RECURSIVE Leaves(_, _)
Leaves(g, ref) ==
    IF g[ref].class_type = "ImageBatch"
    THEN Leaves(g, g[ref].image) \o Leaves(g, g[ref].image2)
    ELSE <<ref>>

\* C10 (safety part): from n >= 1 labeled outputs on, every round turns a list
\* of length L > 1 into one of length ceil(L/2) whose j-th item is an ImageBatch
\* of items 2j-1 and 2j, an odd list's last item passing through unmerged; the
\* loop never ends on an empty list, and it ends with exactly one output, which
\* holds every labeled output exactly once in the original order.
C10_ReductionInv ==
    (cpc \in {"reduce", "done"} /\ Len(labeled) >= 1) =>
        /\ rounds[1] = labeled
        /\ rounds[Len(rounds)] = curr_outputs
        /\ Len(curr_outputs) >= 1
        /\ \A r \in 1..(Len(rounds) - 1) :
              LET before == rounds[r]
                  after == rounds[r + 1]
              IN  /\ Len(before) > 1
                  /\ Len(after) = (Len(before) + 1) \div 2
                  /\ \A j \in 1..(Len(before) \div 2) :
                        graph[after[j]] = ImageBatchNode(before[2 * j - 1], before[2 * j])
                  /\ Len(before) % 2 = 1 => after[Len(after)] = before[Len(before)]
        /\ cpc = "done" =>
              /\ Len(curr_outputs) = 1
              /\ result = <<curr_outputs[1]>>
              /\ Leaves(graph, result[1]) = labeled

\* C10: the reduction has the shape above and, once the fan-out has ended with
\* n >= 1 labeled outputs, the loop terminates and execute returns.
C10_Reduction ==
    /\ []C10_ReductionInv
    /\ (cpc = "reduce" /\ Len(labeled) >= 1) ~> (cpc = "done")

\* C10 witness: a reduction over an odd number (5) of labeled outputs has
\* ended, the last one having passed through the first round unmerged.
C10_Witness ==
    /\ cpc = "done"
    /\ Len(labeled) = 5
    /\ Len(rounds) = 4
    /\ rounds[2][3] = labeled[5]

\* the i-th labeled output is the text overlay of the AIO node of the i-th option
OverlayOf(i) ==
    LET overlay == graph[labeled[i]]
    IN  /\ overlay.class_type = "ControlNetAuxSimpleAddText"
        /\ overlay.text = PREPROCESSOR_OPTIONS[i]
        /\ overlay.image \in 1..Len(graph)
        /\ graph[overlay.image] = AIONode(PREPROCESSOR_OPTIONS[i], 0, resolution)

\* C7 as stated: over a registry of 5 units execute creates exactly 5 label
\* overlays, one per registered name in registry order, and reduces them in 3
\* rounds with lengths 5, 3, 2, 1.
C7_FiveOverlays ==
    (cpc = "done" /\ Len(AUX_NODE_MAPPINGS) = 5) =>
        /\ Len(labeled) = 5
        /\ \A i \in 1..5 : graph[labeled[i]].text = AUX_NODE_MAPPINGS[i]
        /\ Lengths = <<5, 3, 2, 1>>

\* C7 amended: execute creates one label overlay per entry of
\* PREPROCESSOR_OPTIONS, in order: the sentinel "none", then every registered
\* name outside AIO_NOT_SUPPORTED.  Over a registry of 5 units none of which is
\* excluded that is 6 overlays, reduced in 3 rounds with lengths 6, 3, 2, 1 to
\* one final output.
C7_OverlayPerOption ==
    (cpc \in {"reduce", "done"}) =>
        /\ PREPROCESSOR_OPTIONS = ExpectedOptions
        /\ Len(labeled) = Len(PREPROCESSOR_OPTIONS)
        /\ \A i \in 1..Len(labeled) : OverlayOf(i)
        /\ (cpc = "done" /\ Len(AUX_NODE_MAPPINGS) = 5
              /\ \A i \in 1..5 : NotExcluded(AUX_NODE_MAPPINGS[i])) =>
                 /\ Len(labeled) = 6
                 /\ Lengths = <<6, 3, 2, 1>>
                 /\ Len(result) = 1

\* C7 witness: execute has returned over a registry of 5 supported units.
C7_Witness ==
    /\ cpc = "done"
    /\ Len(AUX_NODE_MAPPINGS) = 5
    /\ \A i \in 1..5 : NotExcluded(AUX_NODE_MAPPINGS[i])
    /\ Lengths = <<6, 3, 2, 1>>

\* C8 as stated: over a registry of 0 units execute fails, or returns no image,
\* or returns the unmodified input image.
C8_EmptyOrIdentity ==
    (AUX_NODE_MAPPINGS = <<>> /\ cpc \in {"done", "raised"}) =>
        \/ cpc = "raised"
        \/ result = <<>>
        \/ ImageOf(graph, result[1]) = << <<image>> >>

\* C8 amended: over a registry of 0 units execute fails only for a host without
\* GraphBuilder; otherwise it creates the AIO node of the sentinel "none" and
\* its text overlay, merges nothing, and returns that overlay: the input image
\* with the label "none" drawn on it.
C8_EmptyRegistry ==
    (AUX_NODE_MAPPINGS = <<>> /\ gpc = "ready") =>
        /\ cpc = "raised" => ~hasGraphBuilder
        /\ cpc = "done" =>
              /\ graph = <<AIONode("none", 0, resolution), AddTextNode(1, "none")>>
              /\ Len(rounds) = 1
              /\ result = <<2>>
              /\ ImageOf(graph, result[1]) = << <<image, "text", "none">> >>

\* C8 witness: execute has returned over the empty registry.
C8_Witness ==
    /\ AUX_NODE_MAPPINGS = <<>>
    /\ cpc = "done"
    /\ Len(graph) = 2

----------------------------------------------------------------------------
(* Properties of the two adapters                                          *)

InputTypes == aux_class.input_types

Structural(p) == p.name \in {"image", "resolution"}

DeclaresDefault(p) == p.len = 2 /\ p.has_default

\* the parameter's type is a tag of the known-default table
TagFallback(p) == ~p.is_list /\ p.tag \in {"INT", "FLOAT"}

\* the parameter's type is a choice list with an option of the known-default table
ChoiceFallback(p) ==
    p.is_list /\ \E j \in 1..Len(p.choices) : p.choices[j] \in {"INT", "FLOAT"}

\* neither a structural role, nor a declared default, nor a type-based fallback
NoValueFor(p) ==
    ~Structural(p) /\ ~DeclaresDefault(p) /\ ~TagFallback(p) /\ ~ChoiceFallback(p)

\* the loop has gone past item i
Passed(i) == apc \in {"loop", "invoked", "returned", "raised"} /\ i < idx

\* the loop has raised on item i
RaisedAt(i) == apc = "raised" /\ i = idx /\ i <= Len(InputTypes)

\* C4: in both adapters "image" and "resolution" are bound to the caller's
\* values (512 when the caller passes no resolution) whatever the schema
\* declares, a parameter with a declared default gets it, and the unit runs
\* with these; so a schema of image, resolution (declared 512) and defaulted
\* parameters, called with the image only, gets {image: I, resolution: 512}
\* plus the declared defaults.
C4_StructuralFromCaller ==
    /\ ~supplied => resolution = "512"
    /\ \A i \in 1..Len(InputTypes) :
          LET p == InputTypes[i]
          IN  /\ (Passed(i) /\ p.name = "image") =>
                    (p.name \in DOMAIN params /\ params[p.name] = image)
              /\ (Passed(i) /\ p.name = "resolution") =>
                    (p.name \in DOMAIN params /\ params[p.name] = resolution)
              /\ (Passed(i) /\ ~Structural(p) /\ DeclaresDefault(p)) =>
                    (p.name \in DOMAIN params /\ params[p.name] = p.default)
    /\ entry_args # <<>> =>
          /\ entry_args[1] = params
          /\ \A i \in 1..Len(InputTypes) : Passed(i)

\* C4 witness: a unit with image, resolution (declared 1024) and a defaulted
\* parameter ran for a caller that passed the image only.
C4_Witness ==
    /\ entry_args # <<>>
    /\ ~supplied
    /\ Len(InputTypes) = 3
    /\ InputTypes[2].name = "resolution" /\ InputTypes[2].default = "1024"
    /\ DOMAIN entry_args[1] = {"image", "resolution", "p"}
    /\ entry_args[1]["image"] = "I"
    /\ entry_args[1]["resolution"] = "512"
    /\ entry_args[1]["p"] = "text"

\* C5 as stated: with a parameter that has neither a structural role, nor a
\* declared default, nor a type fallback, the call fails and the unit's entry
\* point does not run.
C5_MissingParameterFails ==
    (preprocessor # "none" /\ \E i \in 1..Len(InputTypes) : NoValueFor(InputTypes[i])) =>
        /\ entry_args = <<>>
        /\ apc \notin {"invoked", "returned"}

\* C5 amended: such a parameter is left out of the argument set and building
\* goes on (only the selector raises, TypeError, when the parameter's type is a
\* choice list); once the loop is through, the entry point is called without
\* the parameter: the call raises TypeError to the caller, before the entry
\* point runs, exactly when the entry point's signature gives the parameter no
\* default, and otherwise the entry point runs with the parameter missing.
C5_LeftUnbound ==
    \A i \in 1..Len(InputTypes) :
        LET p == InputTypes[i]
        IN  (preprocessor # "none" /\ NoValueFor(p)) =>
               /\ p.name \notin DOMAIN params
               /\ RaisedAt(i) => (adapter = "Selector" /\ p.is_list)
               /\ (Passed(i) /\ adapter = "Selector") => ~p.is_list
               /\ (apc = "raised" /\ idx > Len(InputTypes)) =>
                     /\ ~aux_class.py_defaults
                     /\ error = "TypeError: missing required argument"
                     /\ entry_args = <<>>
               /\ apc \in {"invoked", "returned"} =>
                     /\ aux_class.py_defaults
                     /\ entry_args = <<params>>
                     /\ p.name \notin DOMAIN entry_args[1]

\* C5 witness: the entry point ran without a parameter that got no value.
C5_Witness ==
    /\ apc = "returned"
    /\ entry_args # <<>>
    /\ \E i \in 1..Len(InputTypes) :
          NoValueFor(InputTypes[i]) /\ InputTypes[i].name \notin DOMAIN entry_args[1]

\* the elements of the result tuple the unit returned
UnitResult == EntryPointResult(aux_class).result

\* C6 as stated: whichever shape the unit returns, each adapter returns a plain
\* tuple of the unit's result elements (after the controlnet model in the selector).
C6_BothNormalize ==
    (apc = "returned" /\ preprocessor # "none") =>
        /\ retval.shape = "tuple"
        /\ retval.result = (IF adapter = "Selector" THEN <<cnmodel>> ELSE <<>>) \o UnitResult

\* C6 amended: the selector returns a plain tuple, the controlnet model followed
\* by the unit's result elements, whichever shape the unit returns; AIO returns
\* the unit's value as it is, a dict staying a dict.
C6_SelectorNormalizes ==
    (apc = "returned" /\ preprocessor # "none") =>
        /\ adapter = "Selector" => retval = Tuple(<<cnmodel>> \o UnitResult)
        /\ adapter = "AIO" => retval = EntryPointResult(aux_class)

\* C6 witness: the selector returned for a unit that returned a dict.
C6_Witness ==
    /\ adapter = "Selector"
    /\ apc = "returned"
    /\ aux_class.returns_dict
    /\ predict.shape = "dict"
    /\ retval.shape = "tuple"

\* C9: a parameter without structural role and declared default whose type is a
\* choice list with an option of the known-default table is bound to that
\* option's value (0 or 0.0), and the loop goes on.
C9_ChoiceListBound ==
    \A i \in 1..Len(InputTypes) :
        LET p == InputTypes[i]
        IN  (preprocessor # "none" /\ ~Structural(p) /\ ~DeclaresDefault(p)
               /\ ChoiceFallback(p) /\ (Passed(i) \/ RaisedAt(i))) =>
               /\ ~RaisedAt(i)
               /\ p.name \in DOMAIN params
               /\ params[p.name] \in {"0", "0.0"}

====
